---- MODULE Spec2Model ----
(***************************************************************************)
(* A model of @wecandobetter/generic-tasks: Task.run (the sequential step  *)
(* runner with its step log bookkeeping and error wrapping) and            *)
(* Pipeline.run (the sequential task runner with selectors and failure     *)
(* aggregation).                                                           *)
(*                                                                         *)
(* Step functions and selectors are user code: an invocation returns any   *)
(* value or throws any error.  As the step contract demands, they do not   *)
(* touch context.steps themselves.                                         *)
(***************************************************************************)
EXTENDS Integers, Sequences, FiniteSets, TLC

\* ------------------------------------------------------------------ bounds
\* The largest number of steps of a Task that is run alone.
MaxSteps == 3
\* The largest number of steps of a Task that is an entry of a Pipeline.
MaxPipelineSteps == 2
\* The largest number of configuration entries of a Pipeline.
MaxTasks == 2

\* The largest number of steps of a Task of which two runs are in flight.
MaxTwoSteps == 2
\* The largest number of entries of a Pipeline of which two runs are in flight,
\* and of steps of each of its tasks.
MaxTwoTasks == 1
MaxTwoPipelineSteps == 1

\* The largest number of steps a Task is left with by task.push, of steps
\* passed to one call of task.push, and of entries passed to new Pipeline.
MaxBuildSteps == 2
MaxPushed == 1
MaxBuildTasks == 1

\* The largest number of steps of a Task run alone, of entries of a Pipeline
\* and of steps of each of its tasks, where termination is checked.
MaxLiveSteps == 3
MaxLiveTasks == 2
MaxLivePipelineSteps == 1

\* ------------------------------------------------------------------ values
\* The values steps and selectors return and runs are called with.
Values == {"a", "b"}
\* The JavaScript value undefined.
Undefined == "undefined"
\* A property that was never assigned on a step record.
Absent == "absent"

\* The application fields a caller's context may carry.
AppFields == {"app"}
\* No call of a constructor or of push so far.
NoCall == [called |-> FALSE, count |-> 0, before |-> 0, thrown |-> "none", returned |-> 0]

\* No error object.
NoError == [kind |-> "none", code |-> "", context |-> 0, errors |-> <<>>, origin |-> ""]
\* An Error a step rejects with.
RawError == [kind |-> "Error", code |-> "", context |-> 0, errors |-> <<>>, origin |-> "step"]
\* A TaskError a step constructed itself and rejects with; it has the content
\* Task.run would give its own wrapper, but is another object (origin).
StepTaskError(c) ==
  [kind |-> "TaskError", code |-> "FALL_THROUGH", context |-> c,
   errors |-> <<RawError>>, origin |-> "step"]
\* What a step invoked with context c may reject with.
StepErrors(c) == {RawError, StepTaskError(c)}
\* What a selector may throw.
SelectorErrors == {RawError}
\* What a selector may return.
SelectorValues == {"c"}
\* What Pipeline.run is called with.
PipelineInputs == {"a"}

\* new TaskError(code, context, errors)
TaskError(code, context, errors) ==
  [kind |-> "TaskError", code |-> code, context |-> context,
   errors |-> errors, origin |-> "Task.run"]
\* new PipelineError(errors, context)
PipelineError(errors, context) ==
  [kind |-> "PipelineError", code |-> "", context |-> context,
   errors |-> errors, origin |-> "Pipeline.run"]

\* The name of the i-th step function given to task t.
StepName(t, i) == <<t, i>>
\* { name: step.name, status: "pending" }
PendingRecord(name) ==
  [name |-> name, status |-> "pending", input |-> Absent, output |-> Absent,
   error |-> NoError]

\* The four shapes of a PipelineConfiguration entry: a bare Task, {task},
\* {selector: undefined, task} and {selector: fn, task}.
ConfigKinds == {"bare", "noSelector", "undefinedSelector", "selector"}

\* The step logs a caller's context may hold when a task is run on it.
InitLogs ==
  {<<>>,
   <<[name |-> <<0, 1>>, status |-> "success", input |-> "a", output |-> "b",
      error |-> NoError]>>,
   <<[name |-> <<0, 1>>, status |-> "failure", input |-> "a", output |-> Absent,
      error |-> RawError]>>}

VARIABLES
  tasks,      \* task id -> Task.steps, the names of its step functions in order
  pipeline,   \* Pipeline.tasks: the configuration entries (<<>>: no pipeline built)
  ctxSteps,   \* context object id -> its steps log
  prun,       \* run -> the frame of its Pipeline.run
  trun,       \* run -> the frame of its (current) Task.run
  calls,      \* run -> the step invocations so far in time order: the entry
              \*        being run (0: none), the step's index and name, the
              \*        context passed
  selCalls,   \* run -> the selector invocations so far
  ctxFields,  \* context object id -> its other (application) fields
  api         \* the last call of new Pipeline(...) and of task.push(...), and how each ended

vars == <<tasks, pipeline, ctxSteps, prun, trun, calls, selCalls, ctxFields, api>>

Runs == DOMAIN trun

\* The Task.run frame before run is called.
IdleTask ==
  [pc |-> "idle", task |-> 0, ctx |-> 0, input |-> Absent, output |-> Absent,
   i |-> 0, base |-> 0, called |-> 0, arg |-> Absent, ret |-> Absent, raised |-> NoError,
   thrown |-> NoError, result |-> Absent]
\* The Pipeline.run frame before run is called (pc "off": a run of a task
\* alone); caller is the context object the caller will pass.
IdlePipeline(pc) ==
  [pc |-> pc, caller |-> 1, ctx |-> 0, input |-> Absent, output |-> Absent,
   j |-> 0, taskInput |-> Absent, thrown |-> NoError, result |-> Absent,
   resultCtx |-> 0]

\* ------------------------------------------------------------------- Init
\* A task with n steps.
NewTask(t, n) == [i \in 1..n |-> StepName(t, i)]

\* One Task constructed with 0..MaxSteps steps, to be run alone on the
\* caller's context.
InitTask ==
  /\ \E n \in 0..MaxSteps : tasks = <<NewTask(1, n)>>
  /\ pipeline = <<>>
  /\ \E log \in InitLogs : ctxSteps = <<log>>
  /\ prun = <<IdlePipeline("off")>>
  /\ trun = <<IdleTask>>

\* A Pipeline constructed with 1..MaxTasks entries, entry j holding task j.
InitPipeline ==
  /\ \E m \in 1..MaxTasks :
       /\ \E n \in [1..m -> 0..MaxPipelineSteps] : tasks = [t \in 1..m |-> NewTask(t, n[t])]
       /\ \E k \in [1..m -> ConfigKinds] :
            pipeline = [j \in 1..m |-> [kind |-> k[j], task |-> j]]
  /\ ctxSteps = << <<>> >>
  /\ prun = <<IdlePipeline("idle")>>
  /\ trun = <<IdleTask>>

\* No step or selector has been invoked, nothing has been called.
InitHistory ==
  /\ calls = [r \in DOMAIN trun |-> <<>>]
  /\ selCalls = [r \in DOMAIN trun |-> <<>>]
  /\ api = [construct |-> NoCall, push |-> NoCall]

Init ==
  /\ InitTask \/ InitPipeline
  /\ \E f \in AppFields : ctxFields = <<f>>
  /\ InitHistory

\* ------------------------------------------------------------- Task.run
\* A runner that appends a record only for the step about to run first.
PushFirstRecord(log, steps) ==
  log \o [i \in 1..(IF Len(steps) = 0 THEN 0 ELSE 1) |-> PendingRecord(steps[i])]

\* A runner that replaces the log by a new array holding its own records.
PushRecordsReplace(log, steps) == [i \in 1..Len(steps) |-> PendingRecord(steps[i])]

\* context.steps.push(...this.steps.map(step => ({name, status: "pending"})))
PushRecords(log, steps) ==
  log \o [i \in 1..Len(steps) |-> PendingRecord(steps[i])]

\* A runner that writes to the record before the last one, if there is one.
CurrentPrevious(log) == IF Len(log) > 1 THEN Len(log) - 1 ELSE Len(log)

\* A runner that writes to the first record of the log.
CurrentFirst(log) == 1

\* The index (1-based) of the record Task.run writes to:
\* context.steps[context.steps.length - 1].
Current(log) == Len(log)

\* context.steps[...].input = output
SetInput(log, v) == [log EXCEPT ![Current(log)].input = v]

\* context.steps[...].status = "success"; context.steps[...].output = output
MarkSuccess(log, v) ==
  [log EXCEPT ![Current(log)].status = "success", ![Current(log)].output = v]

\* A runner that undoes the task on failure: only the failed record is kept.
MarkFailureRollback(log, e) ==
  <<[log[Len(log)] EXCEPT !.status = "failure", !.error = e]>>

\* context.steps[...].status = "failure"; context.steps[...].error = error
MarkFailure(log, e) ==
  [log EXCEPT ![Current(log)].status = "failure", ![Current(log)].error = e]

\* A runner that wraps whatever was thrown, a TaskError too.
RethrowWrapped(e, c) ==
  [kind |-> "TaskError", code |-> "FALL_THROUGH", context |-> c,
   errors |-> <<e>>, origin |-> "Task.run"]

\* throw error instanceof TaskError ? error : new TaskError("FALL_THROUGH", context, [error])
Rethrow(e, c) ==
  IF e.kind = "TaskError" THEN e ELSE TaskError("FALL_THROUGH", c, <<e>>)

\* The frame of task.run(x, c), called by run r, on entry: let output = input.
\* base and called remember how long the log and the run's invocation history
\* were at that moment.
CallTask(r, t, x, c) ==
  [IdleTask EXCEPT !.pc = "start", !.task = t, !.ctx = c, !.input = x,
                   !.output = x, !.base = Len(ctxSteps[c]),
                   !.called = Len(calls[r])]

\* A caller runs task 1 alone on the context it holds.
TaskRunCall(r) ==
  /\ prun[r].pc = "off"
  /\ trun[r].pc = "idle"
  /\ \E x \in Values : trun' = [trun EXCEPT ![r] = CallTask(r, 1, x, prun[r].caller)]
  /\ UNCHANGED <<tasks, pipeline, ctxSteps, prun, calls, selCalls, ctxFields, api>>

\* The pending records of all steps are appended.
TaskPush(r) ==
  LET f == trun[r] IN
  /\ f.pc = "start"
  /\ ctxSteps' = [ctxSteps EXCEPT ![f.ctx] = PushRecords(@, tasks[f.task])]
  /\ trun' = [trun EXCEPT ![r].pc = "loop"]
  /\ UNCHANGED <<tasks, pipeline, prun, calls, selCalls, ctxFields, api>>

\* The loop takes the next step: its input is recorded and it is invoked.
StepInvoke(r) ==
  LET f == trun[r] IN
  /\ f.pc = "loop"
  /\ f.i < Len(tasks[f.task])
  /\ ctxSteps' = [ctxSteps EXCEPT ![f.ctx] = SetInput(@, f.output)]
  /\ trun' = [trun EXCEPT ![r].pc = "await", ![r].i = f.i + 1, ![r].arg = f.output]
  /\ calls' = [calls EXCEPT ![r] =
       Append(@, [cfg |-> prun[r].j, step |-> f.i + 1,
                  name |-> tasks[f.task][f.i + 1], ctx |-> f.ctx])]
  /\ UNCHANGED <<tasks, pipeline, prun, selCalls, ctxFields, api>>

\* A runner that drops what the step returned and keeps feeding the old value.
ResolvedStale(old, v) == old

\* The output after the awaited step returned v.
Resolved(old, v) == v

\* The awaited step resolves with some value.
StepResolve(r) ==
  LET f == trun[r] IN
  /\ f.pc = "await"
  /\ \E v \in Values :
       /\ trun' = [trun EXCEPT ![r].pc = "loop", ![r].ret = v,
                               ![r].output = Resolved(f.output, v)]
       /\ ctxSteps' = [ctxSteps EXCEPT ![f.ctx] = MarkSuccess(@, Resolved(f.output, v))]
  /\ UNCHANGED <<tasks, pipeline, prun, calls, selCalls, ctxFields, api>>

\* The awaited step rejects with some error: the run throws.
StepReject(r) ==
  LET f == trun[r] IN
  /\ f.pc = "await"
  /\ \E e \in StepErrors(f.ctx) :
       /\ ctxSteps' = [ctxSteps EXCEPT ![f.ctx] = MarkFailure(@, e)]
       /\ trun' = [trun EXCEPT ![r].pc = "thrown", ![r].raised = e,
                               ![r].thrown = Rethrow(e, f.ctx)]
  /\ UNCHANGED <<tasks, pipeline, prun, calls, selCalls, ctxFields, api>>

\* A runner that never leaves its loop after the last step.
TaskReturnNever(r) == FALSE /\ UNCHANGED vars

\* The loop is over: return { output }.
TaskReturn(r) ==
  LET f == trun[r] IN
  /\ f.pc = "loop"
  /\ f.i = Len(tasks[f.task])
  /\ trun' = [trun EXCEPT ![r].pc = "returned", ![r].result = f.output]
  /\ UNCHANGED <<tasks, pipeline, ctxSteps, prun, calls, selCalls, ctxFields, api>>

\* --------------------------------------------------------- Pipeline.run
\* const taskFn = "task" in task ? task.task : task
TaskFn(cfg) == cfg.task

\* "selector" in task
HasSelectorKey(cfg) == cfg.kind \in {"undefinedSelector", "selector"}

\* A runner that collects the error field of every record, failed or not.
FailureErrorsUnfiltered(log) == [i \in 1..Len(log) |-> log[i].error]

\* ctx.steps.filter(step => step.status === "failure").map(step => step.error)
FailureErrors(log) ==
  LET failed == SelectSeq(log, LAMBDA rec : rec.status = "failure")
  IN  [i \in 1..Len(failed) |-> failed[i].error]

\* A runner that spreads in the wrong order, { ...baseContext, ...context }:
\* the caller's steps win.
FreshStepsKept(callerLog) == callerLog

\* const baseContext = { steps: [] }; the steps of { ...context, ...baseContext }
FreshSteps(callerLog) == <<>>

\* The other fields of { ...context, ...baseContext }.
CarryFields(fields) == fields

\* A pipeline that keeps one context of its own and hands it to every run.
PipelineRunCallShared(r) ==
  LET caller == prun[r].caller IN
  /\ prun[r].pc = "idle"
  /\ Len(pipeline) > 0
  /\ \E x \in PipelineInputs :
       prun' = [prun EXCEPT ![r].pc = "loop", ![r].ctx = 2,
                            ![r].input = x, ![r].output = x]
  /\ ctxSteps' = IF Len(ctxSteps) >= 2 THEN ctxSteps ELSE Append(ctxSteps, <<>>)
  /\ ctxFields' = IF Len(ctxFields) >= 2 THEN ctxFields
                  ELSE Append(ctxFields, ctxFields[caller])
  /\ UNCHANGED <<tasks, pipeline, trun, calls, selCalls, api>>

\* const ctx = { ...context, ...baseContext }; let output = input
PipelineRunCall(r) ==
  LET caller == prun[r].caller IN
  /\ prun[r].pc = "idle"
  /\ Len(pipeline) > 0
  /\ \E x \in PipelineInputs :
       prun' = [prun EXCEPT ![r].pc = "loop",
                            ![r].ctx = Len(ctxSteps) + 1,
                            ![r].input = x, ![r].output = x]
  /\ ctxSteps' = Append(ctxSteps, FreshSteps(ctxSteps[caller]))
  /\ ctxFields' = Append(ctxFields, CarryFields(ctxFields[caller]))
  /\ UNCHANGED <<tasks, pipeline, trun, calls, selCalls, api>>

\* The next entry: its task input is chosen and its task is run.
PipelineNext(r) ==
  LET p == prun[r]
      cfg == pipeline[p.j + 1]
      go(x) ==
        /\ prun' = [prun EXCEPT ![r].pc = "await", ![r].j = p.j + 1, ![r].taskInput = x]
        /\ trun' = [trun EXCEPT ![r] = CallTask(r, TaskFn(cfg), x, p.ctx)]
  IN
  /\ p.pc = "loop"
  /\ p.j < Len(pipeline)
  /\ IF HasSelectorKey(cfg)
       THEN IF cfg.kind = "selector"
              THEN \E v \in SelectorValues :
                     /\ go(v)
                     /\ selCalls' = [selCalls EXCEPT ![r] =
                          Append(@, [cfg |-> p.j + 1, input |-> p.output,
                                     ctx |-> p.ctx, result |-> v])]
              ELSE go(Undefined) /\ UNCHANGED selCalls
       ELSE go(p.output) /\ UNCHANGED selCalls
  /\ UNCHANGED <<tasks, pipeline, ctxSteps, calls, ctxFields, api>>

\* A runner that calls the selector outside the try block: what the selector
\* throws leaves Pipeline.run as it is.
SelectorThrowUncaught(r) ==
  LET p == prun[r]
      cfg == pipeline[p.j + 1]
  IN
  /\ p.pc = "loop"
  /\ p.j < Len(pipeline)
  /\ cfg.kind = "selector"
  /\ \E e \in SelectorErrors :
       /\ selCalls' = [selCalls EXCEPT ![r] =
            Append(@, [cfg |-> p.j + 1, input |-> p.output, ctx |-> p.ctx,
                       result |-> Absent])]
       /\ prun' = [prun EXCEPT ![r].pc = "thrown", ![r].j = p.j + 1, ![r].thrown = e]
  /\ UNCHANGED <<tasks, pipeline, ctxSteps, trun, calls, ctxFields, api>>

\* The selector of the next entry throws: caught, PipelineError.
SelectorThrow(r) ==
  LET p == prun[r]
      cfg == pipeline[p.j + 1]
  IN
  /\ p.pc = "loop"
  /\ p.j < Len(pipeline)
  /\ cfg.kind = "selector"
  /\ \E e \in SelectorErrors :
       selCalls' = [selCalls EXCEPT ![r] =
          Append(@, [cfg |-> p.j + 1, input |-> p.output, ctx |-> p.ctx,
                     result |-> Absent])]
  /\ prun' = [prun EXCEPT ![r].pc = "thrown", ![r].j = p.j + 1,
                          ![r].thrown = PipelineError(FailureErrors(ctxSteps[p.ctx]), p.ctx)]
  /\ UNCHANGED <<tasks, pipeline, ctxSteps, trun, calls, ctxFields, api>>

\* A runner that forgets to take over the task's output.
AccumulateKeep(old, taskOutput) == old

\* The accumulated output after a task returned taskOutput.
Accumulate(old, taskOutput) == taskOutput

\* The awaited task returned: output = taskOutput.
PipelineTaskDone(r) ==
  /\ prun[r].pc = "await"
  /\ trun[r].pc = "returned"
  /\ prun' = [prun EXCEPT ![r].pc = "loop",
                          ![r].output = Accumulate(prun[r].output, trun[r].result)]
  /\ UNCHANGED <<tasks, pipeline, ctxSteps, trun, calls, selCalls, ctxFields, api>>

\* A runner that swallows the task's failure and goes on with the next entry.
PipelineCatchContinue(r) ==
  /\ prun[r].pc = "await"
  /\ trun[r].pc = "thrown"
  /\ prun' = [prun EXCEPT ![r].pc = "loop"]
  /\ UNCHANGED <<tasks, pipeline, ctxSteps, trun, calls, selCalls, ctxFields, api>>

\* The awaited task threw: caught, PipelineError.
PipelineCatch(r) ==
  LET p == prun[r] IN
  /\ p.pc = "await"
  /\ trun[r].pc = "thrown"
  /\ prun' = [prun EXCEPT ![r].pc = "thrown",
                          ![r].thrown = PipelineError(FailureErrors(ctxSteps[p.ctx]), p.ctx)]
  /\ UNCHANGED <<tasks, pipeline, ctxSteps, trun, calls, selCalls, ctxFields, api>>

\* The loop is over: return { output, context: ctx }.
PipelineReturn(r) ==
  LET p == prun[r] IN
  /\ p.pc = "loop"
  /\ p.j = Len(pipeline)
  /\ prun' = [prun EXCEPT ![r].pc = "returned", ![r].result = p.output,
                          ![r].resultCtx = p.ctx]
  /\ UNCHANGED <<tasks, pipeline, ctxSteps, trun, calls, selCalls, ctxFields, api>>

Next ==
  \/ \E r \in Runs : TaskRunCall(r)
  \/ \E r \in Runs : TaskPush(r)
  \/ \E r \in Runs : StepInvoke(r)
  \/ \E r \in Runs : StepResolve(r)
  \/ \E r \in Runs : StepReject(r)
  \/ \E r \in Runs : TaskReturn(r)
  \/ \E r \in Runs : PipelineRunCall(r)
  \/ \E r \in Runs : PipelineNext(r)
  \/ \E r \in Runs : SelectorThrow(r)
  \/ \E r \in Runs : PipelineTaskDone(r)
  \/ \E r \in Runs : PipelineCatch(r)
  \/ \E r \in Runs : PipelineReturn(r)

Spec == Init /\ [][Next]_vars

\* A step of a run that was called: everything but the caller's call itself.
Proceed ==
  \E r \in Runs :
    \/ TaskPush(r) \/ StepInvoke(r) \/ StepResolve(r) \/ StepReject(r)
    \/ TaskReturn(r)
    \/ PipelineNext(r) \/ SelectorThrow(r) \/ PipelineTaskDone(r)
    \/ PipelineCatch(r) \/ PipelineReturn(r)

\* Every step invocation and selector call completes and the code between two
\* awaits runs to its end: no step of a called run stays possible forever
\* untaken. Whether the caller ever calls run is left open.
Fairness == WF_vars(Proceed)

\* One Task to be run alone on the caller's context, or one Pipeline, entry j
\* holding task j.
InitLive ==
  /\ \/ /\ \E n \in 0..MaxLiveSteps : tasks = <<NewTask(1, n)>>
        /\ pipeline = <<>>
        /\ \E log \in InitLogs : ctxSteps = <<log>>
        /\ prun = <<IdlePipeline("off")>>
     \/ /\ \E m \in 1..MaxLiveTasks :
             /\ \E n \in [1..m -> 0..MaxLivePipelineSteps] :
                  tasks = [t \in 1..m |-> NewTask(t, n[t])]
             /\ \E k \in [1..m -> ConfigKinds] :
                  pipeline = [j \in 1..m |-> [kind |-> k[j], task |-> j]]
        /\ ctxSteps = << <<>> >>
        /\ prun = <<IdlePipeline("idle")>>
  /\ trun = <<IdleTask>>
  /\ \E f \in AppFields : ctxFields = <<f>>
  /\ InitHistory

SpecLive == InitLive /\ [][Next]_vars /\ Fairness

\* ------------------------------------------------------- two runs in flight
\* The entry shape of the pipeline that is run twice: all its entries are bare
\* tasks, or all carry a selector.
TwoKinds == {"bare", "selector"}

\* Two callers run the same Task, each on the context it holds: context 1 for
\* the first, context 1 or 2 for the second.
InitTwoTasks ==
  /\ \E n \in 0..MaxTwoSteps : tasks = <<NewTask(1, n)>>
  /\ pipeline = <<>>
  /\ \E log \in InitLogs : ctxSteps = <<log, <<>> >>
  /\ \E f \in AppFields : ctxFields = <<f, f>>
  /\ \E c \in {1, 2} :
       prun = <<IdlePipeline("off"), [IdlePipeline("off") EXCEPT !.caller = c]>>
  /\ trun = <<IdleTask, IdleTask>>

\* Two callers run the same Pipeline and pass the same context object, which
\* may carry a steps field.
InitTwoPipelines ==
  /\ \E m \in 1..MaxTwoTasks :
       /\ \E n \in [1..m -> 0..MaxTwoPipelineSteps] :
            tasks = [t \in 1..m |-> NewTask(t, n[t])]
       /\ \E k \in TwoKinds :
            pipeline = [j \in 1..m |-> [kind |-> k, task |-> j]]
  /\ \E log \in InitLogs : ctxSteps = <<log>>
  /\ \E f \in AppFields : ctxFields = <<f>>
  /\ prun = <<IdlePipeline("idle"), IdlePipeline("idle")>>
  /\ trun = <<IdleTask, IdleTask>>

InitTwo ==
  /\ InitTwoTasks \/ InitTwoPipelines
  /\ InitHistory

\* Run r is inside a synchronous stretch of code: it gives up control only at
\* an await (of a step, or of a task's run).
Busy(r) == trun[r].pc \in {"start", "loop"} \/ prun[r].pc = "loop"

\* Run r may take a step: no other run is inside a synchronous stretch.
Free(r) == \A o \in Runs \ {r} : ~Busy(o)

NextTwo ==
  \/ \E r \in Runs : Free(r) /\ TaskRunCall(r)
  \/ \E r \in Runs : Free(r) /\ TaskPush(r)
  \/ \E r \in Runs : Free(r) /\ StepInvoke(r)
  \/ \E r \in Runs : Free(r) /\ StepResolve(r)
  \/ \E r \in Runs : Free(r) /\ StepReject(r)
  \/ \E r \in Runs : Free(r) /\ TaskReturn(r)
  \/ \E r \in Runs : Free(r) /\ PipelineRunCall(r)
  \/ \E r \in Runs : Free(r) /\ PipelineNext(r)
  \/ \E r \in Runs : Free(r) /\ SelectorThrow(r)
  \/ \E r \in Runs : Free(r) /\ PipelineTaskDone(r)
  \/ \E r \in Runs : Free(r) /\ PipelineCatch(r)
  \/ \E r \in Runs : Free(r) /\ PipelineReturn(r)

SpecTwo == InitTwo /\ [][NextTwo]_vars

\* --------------------------------------- construction and push between runs
\* No run is in flight.
Quiet ==
  \A r \in Runs :
    /\ trun[r].pc \in {"idle", "returned", "thrown"}
    /\ prun[r].pc \in {"off", "idle", "returned", "thrown"}

\* A pipeline that accepts an empty list of tasks.
ConstructorAccepts(entries) == FALSE

\* if (!tasks.length) throw new TypeError("Expected at least one task")
ConstructorThrows(entries) == Len(entries) = 0

\* new Pipeline({name, tasks: entries}), called while there is no pipeline
\* yet: throws, or the new pipeline holds the entries
\* (this.tasks.push(...tasks)).
Construct ==
  \E m \in 0..MaxBuildTasks : \E k \in TwoKinds :
    LET entries == [j \in 1..m |-> [kind |-> k, task |-> 1]] IN
    /\ Quiet
    /\ pipeline = <<>>
    /\ pipeline' = IF ConstructorThrows(entries) THEN pipeline ELSE entries
    /\ api' = [api EXCEPT !.construct =
         [called |-> TRUE, count |-> m, before |-> 0,
          thrown |-> IF ConstructorThrows(entries) THEN "TypeError" ELSE "none",
          returned |-> 0]]
    /\ UNCHANGED <<tasks, ctxSteps, prun, trun, calls, selCalls, ctxFields>>

\* A task that accepts a push of no steps.
PushAccepts(steps) == FALSE
\* A task that puts pushed steps in front of its list.
PushStepsFront(old, steps) == steps \o old

\* if (!steps.length) throw new TypeError("Expected at least one step")
PushThrows(steps) == Len(steps) = 0
\* this.steps.push(...steps)
PushSteps(old, steps) == old \o steps

\* task.push(s1, ..., sm) on task 1, called between runs with steps the task
\* does not hold yet: throws, or appends the steps and returns the task.
Push ==
  \E m \in 0..MaxPushed :
    LET old == tasks[1]
        steps == [i \in 1..m |-> StepName(1, Len(old) + i)] IN
    /\ Quiet
    /\ Len(old) + m <= MaxBuildSteps
    /\ tasks' = [tasks EXCEPT ![1] = IF PushThrows(steps) THEN old ELSE PushSteps(old, steps)]
    /\ api' = [api EXCEPT !.push =
         [called |-> TRUE, count |-> m, before |-> Len(old),
          thrown |-> IF PushThrows(steps) THEN "TypeError" ELSE "none",
          returned |-> IF PushThrows(steps) THEN 0 ELSE 1]]
    /\ UNCHANGED <<pipeline, ctxSteps, prun, trun, calls, selCalls, ctxFields>>

\* One Task and no Pipeline yet. Either two callers will run the task, one
\* after the other, the first on context 1 and the second on context 1 or 2;
\* or one caller will run the pipeline, once there is one.
InitBuild ==
  /\ \E n \in 0..(MaxBuildSteps - 1) : tasks = <<NewTask(1, n)>>
  /\ pipeline = <<>>
  /\ ctxSteps = << <<>>, <<>> >>
  /\ \E f \in AppFields : ctxFields = <<f, f>>
  /\ \/ /\ \E c \in {1, 2} :
            prun = <<IdlePipeline("off"), [IdlePipeline("off") EXCEPT !.caller = c]>>
        /\ trun = <<IdleTask, IdleTask>>
     \/ /\ prun = <<IdlePipeline("idle")>>
        /\ trun = <<IdleTask>>
  /\ InitHistory

NextBuild ==
  \/ Construct
  \/ Push
  \/ \E r \in Runs : Quiet /\ TaskRunCall(r)
  \/ \E r \in Runs : TaskPush(r)
  \/ \E r \in Runs : StepInvoke(r)
  \/ \E r \in Runs : StepResolve(r)
  \/ \E r \in Runs : StepReject(r)
  \/ \E r \in Runs : TaskReturn(r)
  \/ \E r \in Runs : Quiet /\ PipelineRunCall(r)
  \/ \E r \in Runs : PipelineNext(r)
  \/ \E r \in Runs : SelectorThrow(r)
  \/ \E r \in Runs : PipelineTaskDone(r)
  \/ \E r \in Runs : PipelineCatch(r)
  \/ \E r \in Runs : PipelineReturn(r)

SpecBuild == InitBuild /\ [][NextBuild]_vars

\* ------------------------------------------------------------ properties
\* The step log of the context the Task.run of r works on.
TaskLog(r) == ctxSteps[trun[r].ctx]
\* The number of steps of the task the Task.run of r runs.
StepCount(r) == Len(tasks[trun[r].task])
\* The k-th record the Task.run of r appended.
Own(r, k) == TaskLog(r)[trun[r].base + k]
\* The step invocations of the Task.run of r.
OwnCalls(r) == SubSeq(calls[r], trun[r].called + 1, Len(calls[r]))
\* Task.run of r was called and has appended its records.
Pushed(r) == trun[r].pc \in {"loop", "await", "returned", "thrown"}

\* C1: Task.run invokes the steps in list order, each at most once; the first
\* step receives the task input, step i+1 receives the value step i returned,
\* and a successful run returns the value the last step returned (the input
\* itself when the task has no steps).
C1_StepsChained ==
  \A r \in Runs :
    LET f == trun[r] IN
    f.pc # "idle" =>
      /\ Len(OwnCalls(r)) = f.i
      /\ \A k \in 1..f.i :
           /\ OwnCalls(r)[k].step = k
           /\ OwnCalls(r)[k].name = tasks[f.task][k]
      /\ (f.pc = "await" /\ f.i = 1) => f.arg = f.input
      /\ (f.pc = "await" /\ f.i > 1) => f.arg = f.ret
      /\ f.pc = "returned" =>
           /\ f.i = StepCount(r)
           /\ f.result = IF StepCount(r) = 0 THEN f.input ELSE f.ret

\* A run of three steps has returned a value that is not its input.
C1_Witness ==
  \E r \in Runs :
    /\ trun[r].pc = "returned"
    /\ StepCount(r) = 3
    /\ trun[r].result # trun[r].input

\* C2: after a run in which all N steps succeeded, every record the run
\* appended has status success and the N-th has the returned output.
C2_AllSuccess ==
  \A r \in Runs :
    trun[r].pc = "returned" =>
      /\ \A k \in 1..StepCount(r) : Own(r, k).status = "success"
      /\ StepCount(r) > 0 => Own(r, StepCount(r)).output = trun[r].result

\* C3: when step k fails, exactly one record the run appended has status
\* failure, it is the k-th, and none of the records k..N has status success.
C3_FailureAtK ==
  \A r \in Runs :
    trun[r].pc = "thrown" =>
      LET k == trun[r].i IN
      /\ Cardinality({m \in 1..StepCount(r) : Own(r, m).status = "failure"}) = 1
      /\ Own(r, k).status = "failure"
      /\ \A m \in k..StepCount(r) : Own(r, m).status # "success"

\* C4: when a step fails with e, Task.run throws a new TaskError with code
\* FALL_THROUGH, errors [e] and the context passed to run if e is no TaskError,
\* and throws e itself, the same object, if e is a TaskError.
C4_Wrapping ==
  \A r \in Runs :
    LET f == trun[r] IN
    f.pc = "thrown" =>
      IF f.raised.kind = "TaskError"
        THEN f.thrown = f.raised
        ELSE /\ f.thrown.kind = "TaskError"
             /\ f.thrown.code = "FALL_THROUGH"
             /\ f.thrown.errors = <<f.raised>>
             /\ f.thrown.context = f.ctx
             /\ f.thrown.origin = "Task.run"
             /\ prun[r].pc # "off" => f.thrown.context = prun[r].ctx

\* A step has rejected with a TaskError of its own and the run has thrown.
C4_Witness ==
  \E r \in Runs :
    /\ trun[r].pc = "thrown"
    /\ trun[r].raised.kind = "TaskError"
    /\ trun[r].thrown.kind = "TaskError"

\* C5: once a step has failed, no later step of the task is invoked, the
\* records of the steps that succeeded before it stay as they were and in the
\* log, and the run has thrown and never returns a value.
C5_AbortNoRollback ==
  [][\A r \in Runs :
       LET f == trun[r]
           failing == f.pc = "await" /\ trun'[r].pc = "thrown"
           failed == f.pc = "thrown"
       IN
       (failing \/ failed) =>
         /\ trun'[r].pc = "thrown"
         /\ trun'[r].thrown.kind = "TaskError"
         /\ trun'[r].result = Absent
         /\ calls'[r] = calls[r]
         /\ Len(ctxSteps'[f.ctx]) = Len(ctxSteps[f.ctx])
         /\ \A k \in 1..(f.i - 1) :
              ctxSteps'[f.ctx][f.base + k] = ctxSteps[f.ctx][f.base + k]
    ]_vars

\* The second of three steps has failed: one step had succeeded, one was
\* never invoked.
C5_Witness ==
  \E r \in Runs :
    /\ trun[r].pc = "thrown"
    /\ trun[r].i = 2
    /\ StepCount(r) = 3
    /\ Len(OwnCalls(r)) = 2

\* C6: Task.run appends one pending record per step, in step order and with
\* the step's name, before it invokes the first step; from then on the log is
\* exactly N records longer than when the run began, however the run ends.
C6_PendingFirst ==
  \A r \in Runs :
    LET f == trun[r] IN
    /\ f.pc = "start" => Len(TaskLog(r)) = f.base /\ OwnCalls(r) = <<>>
    /\ Pushed(r) =>
         /\ Len(TaskLog(r)) = f.base + StepCount(r)
         /\ \A k \in 1..StepCount(r) : Own(r, k).name = tasks[f.task][k]
    /\ (f.pc = "loop" /\ f.i = 0) =>
         /\ OwnCalls(r) = <<>>
         /\ \A k \in 1..StepCount(r) : Own(r, k) = PendingRecord(tasks[f.task][k])

\* The records of a task of two steps are in the log, behind an older record,
\* and no step has been invoked yet.
C6_Witness ==
  \E r \in Runs :
    /\ trun[r].pc = "loop"
    /\ trun[r].i = 0
    /\ trun[r].base > 0
    /\ StepCount(r) = 2

\* The step names of the tasks of entries 1..j, in order.
RECURSIVE ConcatSteps(_)
ConcatSteps(j) ==
  IF j = 0 THEN <<>> ELSE ConcatSteps(j - 1) \o tasks[TaskFn(pipeline[j])]
\* The number of steps of the tasks of entries 1..j.
SumSteps(j) == Len(ConcatSteps(j))
\* The sequence s holds only items that satisfy P.
AllOf(s, P(_)) == \A k \in 1..Len(s) : P(s[k])

\* C7: a Pipeline.run in which all tasks succeed returns the last task's
\* output and the one context every task and step was given, whose log is the
\* tasks' step records in order, one per step.
C7_PipelineSuccess ==
  \A r \in Runs :
    LET p == prun[r] IN
    /\ (p.pc \in {"await", "returned"}) => trun[r].ctx = p.ctx
    /\ p.pc = "returned" =>
         LET log == ctxSteps[p.resultCtx]
             names == ConcatSteps(Len(pipeline))
         IN
         /\ trun[r].pc = "returned"
         /\ p.result = trun[r].result
         /\ p.resultCtx = p.ctx
         /\ p.resultCtx # p.caller
         /\ Len(log) = Len(names)
         /\ \A k \in 1..Len(names) : log[k].name = names[k]
         /\ Len(calls[r]) = Len(names)
         /\ AllOf(calls[r], LAMBDA c : c.ctx = p.resultCtx)

\* A pipeline of two tasks with steps has returned an output that is not its
\* input.
C7_Witness ==
  \E r \in Runs :
    /\ prun[r].pc = "returned"
    /\ Len(pipeline) = 2
    /\ Len(tasks[1]) > 0
    /\ Len(tasks[2]) > 0
    /\ prun[r].result # prun[r].input

\* The entries of the pipeline run r whose task has a failed record in the log.
FailedEntries(r) ==
  LET log == ctxSteps[prun[r].ctx] IN
  {j \in 1..Len(pipeline) :
     \E k \in (SumSteps(j - 1) + 1)..SumSteps(j) :
        k <= Len(log) /\ log[k].status = "failure"}

\* C8: when the run of task j throws, Pipeline.run throws a PipelineError with
\* the shared context; no record of a later task is appended, no step or
\* selector of a later entry is invoked, and no value is returned.
C8_PipelineAbort ==
  /\ [](\A r \in Runs :
          LET p == prun[r] IN
          p.pc \notin {"off", "idle"} =>
            /\ \A j \in FailedEntries(r) :
                 /\ p.j = j
                 /\ Len(ctxSteps[p.ctx]) = SumSteps(j)
                 /\ AllOf(calls[r], LAMBDA c : c.cfg <= j)
                 /\ AllOf(selCalls[r], LAMBDA c : c.cfg <= j)
                 /\ p.pc \in {"await", "thrown"}
                 /\ p.result = Absent
            /\ (p.pc = "thrown" /\ trun[r].pc = "thrown") =>
                 /\ p.thrown.kind = "PipelineError"
                 /\ p.thrown.context = p.ctx
                 /\ FailedEntries(r) = {p.j})
  /\ [][\A r \in Runs :
          (prun[r].pc = "await" /\ trun[r].pc = "thrown") =>
            (prun'[r].pc = "thrown" /\ prun'[r].j = prun[r].j)]_vars

\* The first of two tasks has thrown, the second has steps, and Pipeline.run
\* has thrown.
C8_Witness ==
  \E r \in Runs :
    /\ prun[r].pc = "thrown"
    /\ trun[r].pc = "thrown"
    /\ prun[r].j = 1
    /\ Len(pipeline) = 2
    /\ Len(tasks[2]) > 0

\* C9: when a step threw e, every element of the PipelineError's error list is
\* a TaskError, and the list holds the TaskError the failing Task.run threw.
C9_ErrorsAreTaskErrors ==
  \A r \in Runs :
    (prun[r].pc = "thrown" /\ trun[r].pc = "thrown") =>
      LET errs == prun[r].thrown.errors IN
      /\ AllOf(errs, LAMBDA e : e.kind = "TaskError")
      /\ \E k \in 1..Len(errs) : errs[k] = trun[r].thrown

\* C10: the input of the task of entry i is s(accumulated output, context) if
\* the entry has a selector s, and the accumulated output unchanged if it has
\* none (a bare Task, no selector key, or an undefined selector); the
\* accumulated output is the pipeline input at first, then the previous task's
\* output.
C10_SelectorInput ==
  \A r \in Runs :
    LET p == prun[r] IN
    /\ (p.pc = "loop" /\ p.j = 0) => p.output = p.input
    /\ (p.pc = "loop" /\ p.j > 0) => p.output = trun[r].result
    /\ p.pc = "await" =>
         /\ trun[r].input = p.taskInput
         /\ p.j = 1 => p.output = p.input
         /\ IF pipeline[p.j].kind = "selector"
              THEN LET c == selCalls[r][Len(selCalls[r])] IN
                   /\ c.cfg = p.j
                   /\ c.input = p.output
                   /\ c.ctx = p.ctx
                   /\ c.result = p.taskInput
              ELSE p.taskInput = p.output

\* The contexts that exist.
Contexts == DOMAIN ctxSteps

\* C15: a record starts pending and makes one transition, to success or to
\* failure; once it is success or failure its status never changes again.
C15_OneTransition ==
  [][\A c \in Contexts :
       /\ \A k \in 1..Len(ctxSteps[c]) :
            ctxSteps[c][k].status # "pending" =>
              ctxSteps'[c][k].status = ctxSteps[c][k].status
       /\ \A k \in (Len(ctxSteps[c]) + 1)..Len(ctxSteps'[c]) :
            ctxSteps'[c][k].status = "pending"
    ]_vars

\* C16: in every state a record has an output only if its status is success
\* and an error only if its status is failure; none has both, a pending one
\* has neither.
C16_OutputXorError ==
  \A c \in Contexts :
    \A k \in 1..Len(ctxSteps[c]) :
      LET rec == ctxSteps[c][k] IN
      /\ rec.output # Absent => rec.status = "success"
      /\ rec.error # NoError => rec.status = "failure"
      /\ ~(rec.output # Absent /\ rec.error # NoError)

\* C17: the i-th record a run appended gets its input once, before step i is
\* invoked, the value step i receives, and that input is never overwritten.
C17_InputOnce ==
  /\ [](\A r \in Runs :
          trun[r].pc = "await" => Own(r, trun[r].i).input = trun[r].arg)
  /\ [][\A c \in Contexts :
          \A k \in 1..Len(ctxSteps[c]) :
            ctxSteps[c][k].input # Absent =>
              ctxSteps'[c][k].input = ctxSteps[c][k].input]_vars

\* C19: the error list of a PipelineError has at most one element, and
\* exactly one when a failing step aborted the run.
C19_AtMostOneError ==
  \A r \in Runs :
    prun[r].pc = "thrown" =>
      /\ Len(prun[r].thrown.errors) <= 1
      /\ trun[r].pc = "thrown" =>
           /\ Len(prun[r].thrown.errors) = 1
           /\ prun[r].thrown.errors[1] = trun[r].raised
      /\ trun[r].pc # "thrown" => prun[r].thrown.errors = <<>>

\* The second task of a pipeline failed at the fourth step invocation of the
\* run, after three steps had succeeded, and Pipeline.run has thrown.
C19_Witness ==
  \E r \in Runs :
    /\ prun[r].pc = "thrown"
    /\ trun[r].pc = "thrown"
    /\ prun[r].j = 2
    /\ Len(calls[r]) = 4
    /\ Len(prun[r].thrown.errors) = 1

\* ------------------------------------------------- two runs in flight
\* The context the run r works on (0 before a Pipeline.run was called).
RunCtx(r) == IF prun[r].pc = "off" THEN prun[r].caller ELSE prun[r].ctx
\* Run r takes no step in the transition.
Stays(r) == trun'[r] = trun[r] /\ prun'[r] = prun[r]
\* Each run of a task alone was given a context of its own.
OwnContexts ==
  \A r \in Runs : \A o \in Runs \ {r} :
    prun[r].pc = "off" => RunCtx(o) # RunCtx(r)

\* C11: Pipeline.run works on a fresh context whose steps log starts empty,
\* whatever steps the caller's context holds and whatever earlier runs logged;
\* the caller's other fields are carried over, and the caller's context and
\* its steps array are never changed.
C11_FreshContext ==
  /\ [](\A r \in Runs :
          prun[r].pc \notin {"off", "idle"} =>
            /\ prun[r].ctx # prun[r].caller
            /\ \A o \in Runs \ {r} : prun[o].ctx # prun[r].ctx
            /\ ctxFields[prun[r].ctx] = ctxFields[prun[r].caller]
            /\ (prun[r].pc = "loop" /\ prun[r].j = 0) => ctxSteps[prun[r].ctx] = <<>>
            /\ (prun[r].j = 1 /\ trun[r].pc # "idle") => trun[r].base = 0)
  /\ [][\A r \in Runs :
          prun[r].pc # "off" =>
            /\ ctxSteps'[prun[r].caller] = ctxSteps[prun[r].caller]
            /\ ctxFields'[prun[r].caller] = ctxFields[prun[r].caller]]_vars

\* A run of the pipeline is about to start its first task on an empty log,
\* while the caller's context holds a record and an earlier run of the same
\* pipeline, given the same context, has finished and logged records.
C11_Witness ==
  \E r \in Runs : \E o \in Runs \ {r} :
    /\ prun[r].pc = "loop" /\ prun[r].j = 0
    /\ ctxSteps[prun[r].ctx] = <<>>
    /\ ctxSteps[prun[r].caller] # <<>>
    /\ prun[o].pc \in {"returned", "thrown"}
    /\ prun[o].caller = prun[r].caller
    /\ ctxSteps[prun[o].ctx] # <<>>

\* The record the frame f of a Task.run has written to, the last one of its
\* own, as the run's own step results determine it.
LastRecord(f) ==
  [name |-> tasks[f.task][Len(tasks[f.task])],
   status |-> IF f.pc = "thrown" THEN "failure"
              ELSE IF f.ret # Absent THEN "success" ELSE "pending",
   input |-> IF f.i = 0 THEN Absent ELSE f.arg,
   output |-> f.ret,
   error |-> f.raised]

\* C13: two runs interleaved at their awaits, each on a context of its own, do
\* not interfere: a step of one run changes neither the log nor the history
\* of the other, and the log and outcome of each run are what its own step
\* results determine, as when it runs alone.
C13_NoInterference ==
  /\ [](OwnContexts =>
          \A r \in Runs :
            LET f == trun[r]
                N == StepCount(r) IN
            Pushed(r) =>
              /\ Len(TaskLog(r)) = f.base + N
              /\ \A k \in 1..(N - 1) : Own(r, k) = PendingRecord(tasks[f.task][k])
              /\ N > 0 => Own(r, N) = LastRecord(f)
              /\ Len(OwnCalls(r)) = f.i
              /\ \A k \in 1..f.i : OwnCalls(r)[k].name = tasks[f.task][k]
              /\ f.pc = "returned" => f.result = IF N = 0 THEN f.input ELSE f.ret
              /\ f.pc = "thrown" => f.thrown = Rethrow(f.raised, f.ctx))
  /\ [][OwnContexts =>
          \A r \in Runs :
            Stays(r) =>
              /\ calls'[r] = calls[r]
              /\ selCalls'[r] = selCalls[r]
              /\ RunCtx(r) # 0 => ctxSteps'[RunCtx(r)] = ctxSteps[RunCtx(r)]]_vars

\* Two runs of a two-step task, each on its own context, are both waiting for
\* a step: the first for its second step, the second for its first.
C13_Witness ==
  /\ OwnContexts
  /\ \A r \in Runs : prun[r].pc = "off" /\ trun[r].pc = "await"
  /\ trun[1].i = 2
  /\ trun[2].i = 1

\* C18: a step log is append-only: the context keeps its array, no record is
\* removed or moved, and the names already logged stay a prefix of the names
\* logged later.
C18_AppendOnly ==
  [][\A c \in Contexts :
       /\ c \in DOMAIN ctxSteps'
       /\ Len(ctxSteps'[c]) >= Len(ctxSteps[c])
       /\ \A k \in 1..Len(ctxSteps[c]) : ctxSteps'[c][k].name = ctxSteps[c][k].name
    ]_vars

\* A log that held a record before any run holds, after two runs of a
\* two-step task on the same context, that record and the four appended.
C18_Witness ==
  /\ \A r \in Runs : prun[r].pc = "off" /\ trun[r].pc \in {"returned", "thrown"}
  /\ trun[1].ctx = trun[2].ctx
  /\ Len(ctxSteps[trun[1].ctx]) = 5

\* C20: when two runs of Task.run share a context and interleave, every write
\* goes to the last record of the shared log, whoever appended it, so a step
\* result of one run lands in a record the other run appended.
C20_WritesLastRecord ==
  [][\A c \in Contexts :
       \A k \in 1..Len(ctxSteps[c]) :
         ctxSteps'[c][k] # ctxSteps[c][k] => k = Len(ctxSteps[c])]_vars

\* Two runs share a context; the second has invoked its first step and waits
\* for it, yet the last record it appended is already marked success and
\* holds the value the first run's step returned.
C20_Witness ==
  \E r \in Runs : \E o \in Runs \ {r} :
    /\ prun[r].pc = "off" /\ prun[o].pc = "off"
    /\ trun[r].ctx = trun[o].ctx
    /\ trun[o].pc = "await" /\ trun[o].i = 1
    /\ trun[o].base >= trun[r].base + StepCount(r)
    /\ trun[r].ret # Absent
    /\ Own(o, StepCount(o)).status = "success"
    /\ Own(o, StepCount(o)).output = trun[r].ret

\* ------------------------------------------- construction and push
\* The names of the step invocations of the Task.run of r.
OwnCallNames(r) == [k \in 1..Len(OwnCalls(r)) |-> OwnCalls(r)[k].name]

\* C12: new Pipeline with no tasks throws a TypeError and builds nothing, and
\* no run throws it later; task.push with no steps throws a TypeError and
\* leaves the step list as it was; with at least one task or step both
\* succeed.
C12_Guards ==
  /\ [](api.construct.called =>
          IF api.construct.count = 0
          THEN api.construct.thrown = "TypeError" /\ pipeline = <<>>
          ELSE api.construct.thrown = "none" /\ Len(pipeline) = api.construct.count)
  /\ [](\A r \in Runs :
          /\ prun[r].pc \notin {"off", "idle"} =>
               Len(pipeline) >= 1 /\ api.construct.thrown = "none"
          /\ prun[r].pc = "thrown" => prun[r].thrown.kind = "PipelineError"
          /\ trun[r].pc = "thrown" => trun[r].thrown.kind = "TaskError")
  /\ [](api.push.called =>
          IF api.push.count = 0
          THEN api.push.thrown = "TypeError" /\ api.push.returned = 0
          ELSE /\ api.push.thrown = "none" /\ api.push.returned = 1
               /\ Len(tasks[1]) = api.push.before + api.push.count)
  /\ [][(api'.push # api.push /\ api'.push.thrown = "TypeError") =>
          tasks' = tasks]_vars

\* new Pipeline with no tasks has thrown, no pipeline exists, and push with
\* no steps has thrown on a task that holds a step.
C12_Witness ==
  /\ api.construct.called /\ api.construct.count = 0
  /\ api.construct.thrown = "TypeError"
  /\ pipeline = <<>>
  /\ api.push.called /\ api.push.count = 0
  /\ api.push.thrown = "TypeError"
  /\ Len(tasks[1]) >= 1

\* C14: push of m >= 1 steps between runs puts them at the end of the list
\* and returns the task; a later run appends a record for every step of the
\* list and invokes the old steps, then the new ones, in order; push changes
\* neither the log nor the frame of any run.
C14_PushAppends ==
  /\ []((api.push.called /\ api.push.count >= 1) =>
          /\ tasks[1] = NewTask(1, api.push.before + api.push.count)
          /\ api.push.returned = 1)
  /\ [](\A r \in Runs :
          trun[r].pc \in {"loop", "await"} =>
            /\ Len(TaskLog(r)) = trun[r].base + StepCount(r)
            /\ \A k \in 1..StepCount(r) : Own(r, k).name = tasks[trun[r].task][k]
            /\ OwnCallNames(r) = SubSeq(tasks[trun[r].task], 1, trun[r].i))
  /\ [][\A r \in Runs :
          (trun[r].pc # "returned" /\ trun'[r].pc = "returned") =>
            OwnCallNames(r) = tasks[trun[r].task]]_vars
  /\ [][api'.push # api.push =>
          /\ ctxSteps' = ctxSteps
          /\ trun' = trun /\ prun' = prun
          /\ calls' = calls /\ selCalls' = selCalls]_vars

\* A run of the one-step task returned, one step was pushed, and the next
\* run, on another context, invoked two steps and returned; the first run's
\* log holds its one record, the second run's log two.
C14_Witness ==
  /\ Len(trun) = 2
  /\ trun[1].pc = "returned" /\ trun[1].i = 1
  /\ trun[2].pc = "returned" /\ trun[2].i = 2
  /\ api.push = [called |-> TRUE, count |-> 1, before |-> 1, thrown |-> "none", returned |-> 1]
  /\ trun[1].ctx = 1 /\ trun[2].ctx = 2
  /\ Len(ctxSteps[1]) = 1 /\ Len(ctxSteps[2]) = 2

\* ------------------------------------------------------- frame of a run
\* C21: a Task.run that is not interleaved with another run never changes a
\* record that was in the log when it started: not on a caller's log that
\* holds records, and not, in a pipeline, the records of the earlier tasks,
\* also when the task has no steps.
C21_EarlierRecordsKept ==
  [][\A r \in Runs :
       trun'[r].pc # "idle" =>
         \A k \in 1..trun'[r].base :
           ctxSteps'[trun'[r].ctx][k] = ctxSteps[trun'[r].ctx][k]]_vars

\* In a pipeline the first task logged two records and the second task, of no
\* steps, has returned: the log still ends with the first task's records.
C21_Witness ==
  \E r \in Runs :
    /\ prun[r].pc = "await" /\ prun[r].j = 2
    /\ trun[r].pc = "returned"
    /\ StepCount(r) = 0
    /\ trun[r].base = 2
    /\ Len(TaskLog(r)) = 2
    /\ TaskLog(r)[2].status = "success"

\* ----------------------------------------------------- a selector throws
\* The selector of entry prun[r].j threw and Pipeline.run of r has thrown.
SelectorThrew(r) ==
  /\ prun[r].pc = "thrown"
  /\ selCalls[r] # <<>>
  /\ selCalls[r][Len(selCalls[r])].cfg = prun[r].j
  /\ selCalls[r][Len(selCalls[r])].result = Absent

\* C22: when the selector of entry i throws, Pipeline.run throws a
\* PipelineError that carries the run's context; no step of entry i or of a
\* later entry is invoked and no record is appended for them, then or later;
\* the error list holds the errors of the failure records, so it is empty
\* when the log holds none.
C22_SelectorThrows ==
  /\ [](\A r \in Runs :
          SelectorThrew(r) =>
            LET p == prun[r]
                log == ctxSteps[p.ctx] IN
            /\ p.thrown.kind = "PipelineError"
            /\ p.thrown.context = p.ctx
            /\ \A k \in 1..Len(calls[r]) : calls[r][k].cfg < p.j
            /\ [k \in 1..Len(log) |-> log[k].name] = ConcatSteps(p.j - 1)
            /\ (\A k \in 1..Len(log) : log[k].status # "failure") =>
                 p.thrown.errors = <<>>)
  /\ [][\A r \in Runs :
          SelectorThrew(r) =>
            /\ prun'[r] = prun[r] /\ trun'[r] = trun[r]
            /\ calls'[r] = calls[r] /\ selCalls'[r] = selCalls[r]
            /\ ctxSteps'[prun[r].ctx] = ctxSteps[prun[r].ctx]]_vars

\* The first task of a pipeline logged two successes, then the selector of
\* the second entry threw: Pipeline.run threw a PipelineError with an empty
\* error list, and the log holds the two records.
C22_Witness ==
  \E r \in Runs :
    /\ SelectorThrew(r)
    /\ prun[r].j = 2
    /\ Len(pipeline) = 2
    /\ Len(calls[r]) = 2
    /\ Len(ctxSteps[prun[r].ctx]) = 2
    /\ Len(tasks[TaskFn(pipeline[2])]) > 0
    /\ prun[r].thrown.errors = <<>>

\* ----------------------------------------------------------- termination
\* The run r was called: Task.run alone, or Pipeline.run.
Started(r) ==
  IF prun[r].pc = "off" THEN trun[r].pc # "idle" ELSE prun[r].pc # "idle"

\* The run r is over: Task.run, called alone, or Pipeline.run has returned or
\* thrown.
Completed(r) ==
  IF prun[r].pc = "off" THEN trun[r].pc \in {"returned", "thrown"}
  ELSE prun[r].pc \in {"returned", "thrown"}

\* C23: when every step and selector call completes, every Task.run and
\* Pipeline.run completes: it returns a value, or throws one TaskError
\* (Task.run) or one PipelineError (Pipeline.run), and stays as it ended; no
\* step of an entry's task is invoked twice.
C23_Completes ==
  /\ (\E r \in Runs : Started(r) /\ ~Completed(r)) ~> (\A r \in Runs : Completed(r))
  /\ [](\A r \in Runs :
          /\ \A k \in 1..Len(calls[r]) : \A l \in 1..Len(calls[r]) :
               (calls[r][k].cfg = calls[r][l].cfg /\ calls[r][k].step = calls[r][l].step)
                 => k = l
          /\ trun[r].pc = "returned" => trun[r].thrown = NoError
          /\ trun[r].pc = "thrown" =>
               trun[r].thrown.kind = "TaskError" /\ trun[r].result = Absent
          /\ prun[r].pc = "returned" => prun[r].thrown = NoError
          /\ prun[r].pc = "thrown" =>
               prun[r].thrown.kind = "PipelineError" /\ prun[r].result = Absent)
  /\ [][\A r \in Runs :
          /\ trun[r].pc = "thrown" => trun'[r] = trun[r]
          /\ Completed(r) =>
               prun'[r] = prun[r] /\ trun'[r] = trun[r] /\ calls'[r] = calls[r]]_vars

\* A Pipeline.run of two tasks of one step each has returned after two step
\* invocations.
C23_Witness ==
  \E r \in Runs :
    /\ prun[r].pc = "returned"
    /\ Len(pipeline) = 2
    /\ Len(calls[r]) = 2
    /\ Completed(r)

====
